---- MODULE Spec2Model ----
(***************************************************************************)
(* State model of rqt_virtual_joystick's controller_buttons_widget.py:     *)
(* four ControllerButton objects (QAbstractButton subclasses, checkable,   *)
(* not auto-exclusive) owned by one ControllerButtonsWidget.               *)
(*                                                                         *)
(* Qt delivers everything on the GUI thread and the signal connections are *)
(* direct, so one input event or one API call runs to completion, slots    *)
(* included, before the next one starts: each is one action here.          *)
(***************************************************************************)
EXTENDS Integers, Sequences, FiniteSets, TLC

\* Longest press/release history recorded from construction (scenario checks).
MaxHist == 4

\* class GameButton(IntEnum): the members, and int(member).
GameButton == {"A", "B", "X", "Y"}

IntOf == [b \in GameButton |->
            CASE b = "A" -> 0 [] b = "B" -> 1 [] b = "X" -> 2 [] b = "Y" -> 3]

\* BUTTON_LAYOUT: the order in which _init_ui fills the _buttons dict, which is
\* the order self._buttons.values() iterates in.
ButtonOrder == <<"Y", "X", "B", "A">>

\* Keys a caller may hand to set_button_checked: the four identities (a
\* GameButton hashes and compares as its int) and some that are none of them.
BadIds == {-1, 4, 99}

Keys == {IntOf[b] : b \in GameButton} \cup BadIds

None == "None"

\* self._buttons.get(btn_id)
ButtonsGet(k) ==
    IF \E b \in GameButton : IntOf[b] = k
    THEN CHOOSE b \in GameButton : IntOf[b] = k
    ELSE None

VARIABLES
    checked,    \* QAbstractButton.isChecked() of each button
    down,       \* QAbstractButton.isDown() of each button
    sticky,     \* ControllerButton._sticky of each button
    pressed,    \* ControllerButtonsWidget._pressed
    toggled,    \* toggled(bool) signals the buttons emitted during the last operation
    emitted,    \* button_state_changed emissions of the last operation, each with
                \* what a slot connected to it sees at that moment
    raised,     \* exception the last operation ended with, or None
    lastOp,     \* the last operation
    pre,        \* history: the state the last operation started in
    rawOnly,    \* history: only press/release since construction
    histOk,     \* history: hist is the whole operation history
    hist,       \* history: the operations since construction, while histOk
    repeated    \* history: the last operation is the one before it, called again

vars == <<checked, down, sticky, pressed, toggled, emitted, raised, lastOp,
          pre, rawOnly, histOk, hist, repeated>>

Op(name, id, val) == [op |-> name, id |-> id, val |-> val]

NoId == -1

\* The widget's state as one value, as the methods below transform it.
Cur ==
    [checked |-> checked, down |-> down, sticky |-> sticky, pressed |-> pressed,
     toggled |-> <<>>, emitted |-> <<>>, raised |-> None]

CheckedSet(s) == {b \in GameButton : s.checked[b]}

----------------------------------------------------------------------------
(* ControllerButtonsWidget._on_button_toggled, the slot of each button's    *)
(* toggled signal.                                                          *)

on_button_toggled_NoDiscard(s, b, v) ==
    LET s1 == [s EXCEPT !.pressed = IF v THEN @ \cup {b} ELSE @]
    IN  [s1 EXCEPT !.emitted = Append(@,
            [id |-> IntOf[b], checked |-> v,
             checkedAt |-> CheckedSet(s1), pressedAt |-> s1.pressed])]

on_button_toggled_EmitFirst(s, b, v) ==
    LET s1 == [s EXCEPT !.emitted = Append(@,
                  [id |-> IntOf[b], checked |-> v,
                   checkedAt |-> CheckedSet(s), pressedAt |-> s.pressed])]
    IN  [s1 EXCEPT !.pressed = IF v THEN @ \cup {b} ELSE @ \ {b}]

on_button_toggled_EmitsOnlyChecked(s, b, v) ==
    LET s1 == [s EXCEPT !.pressed = IF v THEN @ \cup {b} ELSE @ \ {b}]
    IN  IF v
        THEN [s1 EXCEPT !.emitted = Append(@,
                [id |-> IntOf[b], checked |-> v,
                 checkedAt |-> CheckedSet(s1), pressedAt |-> s1.pressed])]
        ELSE s1

on_button_toggled(s, b, v) ==
    LET s1 == [s EXCEPT !.pressed = IF v THEN @ \cup {b} ELSE @ \ {b}]
    IN  [s1 EXCEPT !.emitted = Append(@,
            [id |-> IntOf[b], checked |-> v,
             checkedAt |-> CheckedSet(s1), pressedAt |-> s1.pressed])]

(* QAbstractButton.setChecked as the code calls it: nothing happens when    *)
(* the value is the current one; otherwise the flag is stored and           *)
(* toggled(v) is emitted, which runs the slot above synchronously.          *)

setChecked(s, b, v) ==
    IF s.checked[b] = v
    THEN s
    ELSE on_button_toggled(
            [s EXCEPT !.checked[b] = v, !.toggled = Append(@, <<b, v>>)], b, v)

\* QAbstractButton.setDown
setDown(s, b, v) == [s EXCEPT !.down[b] = v]

----------------------------------------------------------------------------
(* ControllerButton                                                         *)

nextCheckState_Never(s, b) == s

\* super().nextCheckState() is setChecked(not isChecked()) on a checkable button.
nextCheckState(s, b) ==
    IF s.sticky[b] THEN setChecked(s, b, ~s.checked[b]) ELSE s

reset(s, b) == setDown(setChecked(s, b, FALSE), b, FALSE)

set_sticky_NoUncheck(s, b, enabled) == [s EXCEPT !.sticky[b] = enabled]

set_sticky(s, b, enabled) ==
    LET s1 == [s EXCEPT !.sticky[b] = enabled]
    IN  IF ~s1.sticky[b] THEN setChecked(s1, b, FALSE) ELSE s1

on_pressed_StickyOnly(s, b) ==
    IF s.sticky[b]
    THEN IF ~s.checked[b] THEN setChecked(s, b, TRUE) ELSE s
    ELSE s

on_pressed(s, b) ==
    IF ~s.sticky[b]
    THEN IF ~s.checked[b] THEN setChecked(s, b, TRUE) ELSE s
    ELSE s

on_released_StickyOnly(s, b) ==
    IF s.sticky[b]
    THEN IF s.checked[b] THEN setChecked(s, b, FALSE) ELSE s
    ELSE s

on_released(s, b) ==
    IF ~s.sticky[b]
    THEN IF s.checked[b] THEN setChecked(s, b, FALSE) ELSE s
    ELSE s

(* A press on the button (QAbstractButton.mousePressEvent): setDown(True),  *)
(* then the pressed signal, connected to _on_pressed.                       *)
press(s, b) == on_pressed(setDown(s, b, TRUE), b)

(* A release over the button (QAbstractButton.mouseReleaseEvent): ignored   *)
(* when the button is not down; otherwise the click completes: down is      *)
(* cleared, nextCheckState() runs, then the released signal, connected to   *)
(* _on_released.                                                            *)
release(s, b) ==
    IF ~s.down[b]
    THEN s
    ELSE on_released(nextCheckState(setDown(s, b, FALSE), b), b)

----------------------------------------------------------------------------
(* ControllerButtonsWidget                                                  *)

set_button_checked_Silent(s, k, v) ==
    IF ButtonsGet(k) = None THEN s ELSE setChecked(s, ButtonsGet(k), v)

set_button_checked(s, k, v) ==
    IF ButtonsGet(k) = None
    THEN [s EXCEPT !.raised = "KeyError"]
    ELSE setChecked(s, ButtonsGet(k), v)

get_pressed_buttons == {IntOf[b] : b \in pressed}

\* for button in self._buttons.values(): button.reset()
RECURSIVE ResetEach(_, _)
ResetEach(s, order) ==
    IF order = <<>> THEN s ELSE ResetEach(reset(s, Head(order)), Tail(order))

\* for btn_id in list(self._pressed): self.set_button_checked(btn_id, False)
\* (an exception would leave the loop)
RECURSIVE UncheckEach(_, _)
UncheckEach(s, order) ==
    IF order = <<>> \/ s.raised # None
    THEN s
    ELSE UncheckEach(set_button_checked(s, IntOf[Head(order)], FALSE), Tail(order))

\* The orders list(S) can come out in: a set's iteration order is not specified.
Orders(S) ==
    {f \in [1..Cardinality(S) -> S] :
        \A i, j \in 1..Cardinality(S) : f[i] = f[j] => i = j}

reset_all_with(s, order) ==
    IF s.pressed = {}
    THEN ResetEach(s, ButtonOrder)
    ELSE LET s1 == UncheckEach(s, order)
         IN  IF s1.raised # None THEN s1 ELSE [s1 EXCEPT !.pressed = {}]

\* The states reset_all() can end in, one per iteration order of the copy.
reset_all(s) == {reset_all_with(s, order) : order \in Orders(s.pressed)}

\* for button in self._buttons.values(): button.set_sticky(enabled)
RECURSIVE StickyEach(_, _, _)
StickyEach(s, order, enabled) ==
    IF order = <<>>
    THEN s
    ELSE StickyEach(set_sticky(s, Head(order), enabled), Tail(order), enabled)

set_sticky_mode_AlwaysReset(s, enabled) ==
    reset_all(StickyEach(s, ButtonOrder, enabled))

\* The states set_sticky_mode(enabled) can end in (reset_buttons is reset_all).
set_sticky_mode(s, enabled) ==
    LET s1 == StickyEach(s, ButtonOrder, enabled)
    IN  IF ~enabled THEN reset_all(s1) ELSE {s1}

----------------------------------------------------------------------------
(* The state machine                                                        *)

IsRaw(o) == o.op \in {"press", "release"}

\* The operation o, started in the current state, ends in state s.
Commit(s, o) ==
    /\ checked' = s.checked
    /\ down' = s.down
    /\ sticky' = s.sticky
    /\ pressed' = s.pressed
    /\ toggled' = s.toggled
    /\ emitted' = s.emitted
    /\ raised' = s.raised
    /\ lastOp' = o
    /\ pre' = [checked |-> checked, down |-> down, sticky |-> sticky,
               pressed |-> pressed]
    /\ rawOnly' = (rawOnly /\ IsRaw(o))
    /\ histOk' = (histOk /\ IsRaw(o) /\ Len(hist) < MaxHist)
    /\ hist' = IF histOk' THEN Append(hist, o) ELSE <<>>
    /\ repeated' = (o = lastOp)

\* ControllerButtonsWidget(sticky_buttons = m): every button is built unchecked,
\* up and momentary, and set_sticky_buttons(m) then changes only the mode.
Init ==
    \E m \in BOOLEAN :
        /\ checked = [b \in GameButton |-> FALSE]
        /\ down = [b \in GameButton |-> FALSE]
        /\ sticky = [b \in GameButton |-> m]
        /\ pressed = {}
        /\ toggled = <<>>
        /\ emitted = <<>>
        /\ raised = None
        /\ lastOp = Op("init", NoId, m)
        /\ pre = [checked |-> checked, down |-> down, sticky |-> sticky,
                  pressed |-> pressed]
        /\ rawOnly = TRUE
        /\ histOk = TRUE
        /\ hist = <<>>
        /\ repeated = FALSE

Press ==
    \E b \in GameButton : Commit(press(Cur, b), Op("press", IntOf[b], TRUE))

Release ==
    \E b \in GameButton : Commit(release(Cur, b), Op("release", IntOf[b], FALSE))

SetButtonChecked ==
    \E k \in Keys, v \in BOOLEAN :
        Commit(set_button_checked(Cur, k, v), Op("set_button_checked", k, v))

SetStickyMode ==
    \E enabled \in BOOLEAN :
        \E s \in set_sticky_mode(Cur, enabled) :
            Commit(s, Op("set_sticky_mode", NoId, enabled))

ResetAll ==
    \E s \in reset_all(Cur) : Commit(s, Op("reset_all", NoId, FALSE))

Next == Press \/ Release \/ SetButtonChecked \/ SetStickyMode \/ ResetAll

Spec == Init /\ [][Next]_vars

TypeOK ==
    /\ checked \in [GameButton -> BOOLEAN]
    /\ down \in [GameButton -> BOOLEAN]
    /\ sticky \in [GameButton -> BOOLEAN]
    /\ pressed \subseteq GameButton
    /\ raised \in {None, "KeyError"}
    /\ Len(hist) <= MaxHist

AllSticky == \A b \in GameButton : sticky[b]
AllMomentary == \A b \in GameButton : ~sticky[b]

----------------------------------------------------------------------------
(* Properties                                                               *)

Changed == {b \in GameButton : checked[b] # pre.checked[b]}

PressOf(b) == Op("press", IntOf[b], TRUE)
ReleaseOf(b) == Op("release", IntOf[b], FALSE)

\* C1. Aggregate consistency: after every operation get_pressed_buttons() is
\* exactly the set of integer identities of the buttons whose checked flag is
\* true.
C1_AggregateConsistent ==
    get_pressed_buttons = {IntOf[b] : b \in {x \in GameButton : checked[x]}}

C1_Witness ==
    /\ lastOp = ReleaseOf("X")
    /\ AllSticky
    /\ pre.pressed = {"A", "B"}
    /\ get_pressed_buttons = {0, 1, 2}
    /\ checked["A"] /\ checked["B"] /\ checked["X"] /\ ~checked["Y"]

\* C2. Reset: after reset_all() returns, get_pressed_buttons() is empty and
\* every button has checked = false and down = false, whether or not the
\* aggregate was empty when it was called.
C2_ResetClearsAll ==
    lastOp.op = "reset_all" =>
        /\ get_pressed_buttons = {}
        /\ \A b \in GameButton : ~checked[b] /\ ~down[b]

\* C3. Momentary mirroring: in a group constructed momentary and driven only
\* by press and release, every button has checked = down after each call;
\* press(A) on the fresh group gives {0} and the following release(A) gives {}.
C3_MomentaryMirrors ==
    (rawOnly /\ AllMomentary) =>
        /\ \A b \in GameButton : checked[b] = down[b]
        /\ (histOk /\ hist = <<PressOf("A")>>) => get_pressed_buttons = {0}
        /\ (histOk /\ hist = <<PressOf("A"), ReleaseOf("A")>>)
              => get_pressed_buttons = {}

C3_Witness ==
    /\ rawOnly /\ AllMomentary
    /\ lastOp = ReleaseOf("A")
    /\ pre.checked["A"] /\ pre.down["A"]
    /\ ~checked["A"] /\ ~down["A"]
    /\ checked["Y"] /\ down["Y"]

\* C4. Sticky toggling: in sticky mode press(id) changes no checked flag and
\* sets down; the release(id) that completes the press flips checked of that
\* button once and leaves the other three alone; from a fresh sticky group
\* press(B), release(B) gives {1} and a second press(B), release(B) gives {}.
C4_StickyToggles ==
    AllSticky =>
        /\ \A b \in GameButton :
              lastOp = PressOf(b) => checked = pre.checked /\ down[b]
        /\ \A b \in GameButton :
              (lastOp = ReleaseOf(b) /\ pre.down[b]) =>
                  /\ checked = [pre.checked EXCEPT ![b] = ~@]
                  /\ toggled = <<<<b, checked[b]>>>>
        /\ (rawOnly /\ histOk /\ hist = <<PressOf("B"), ReleaseOf("B")>>)
              => get_pressed_buttons = {1}
        /\ (rawOnly /\ histOk /\ hist = <<PressOf("B"), ReleaseOf("B"),
                                          PressOf("B"), ReleaseOf("B")>>)
              => get_pressed_buttons = {}

C4_Witness ==
    /\ AllSticky /\ rawOnly /\ histOk
    /\ hist = <<PressOf("B"), ReleaseOf("B"), PressOf("B"), ReleaseOf("B")>>
    /\ pre.checked["B"] /\ pre.down["B"]
    /\ get_pressed_buttons = {}

\* C5. Change notification: an operation emits button_state_changed(int(id), v)
\* exactly once for each button whose checked flag it changed, with the new
\* value, in the order of the changes, and nothing else; a repeated
\* set_button_checked(id, true) emits nothing.
C5_NotifiesEachChangeOnce ==
    /\ Len(emitted) = Cardinality(Changed)
    /\ \A b \in Changed :
          \E i \in 1..Len(emitted) :
              emitted[i].id = IntOf[b] /\ emitted[i].checked = checked[b]
    /\ Len(emitted) = Len(toggled)
    /\ \A i \in 1..Len(emitted) :
          /\ emitted[i].id = IntOf[toggled[i][1]]
          /\ emitted[i].checked = toggled[i][2]
    /\ (repeated /\ lastOp.op = "set_button_checked" /\ lastOp.val)
          => emitted = <<>>

C5_Witness ==
    /\ repeated
    /\ lastOp = Op("set_button_checked", 0, TRUE)
    /\ pre.checked["A"] /\ checked["A"]
    /\ emitted = <<>>

\* C6. Mode-switch safety: after set_sticky_mode(false) every button is
\* unchecked, not down and momentary, and get_pressed_buttons() is empty.
C6_LeavingStickyClearsAll ==
    (lastOp.op = "set_sticky_mode" /\ ~lastOp.val) =>
        /\ \A b \in GameButton : ~checked[b] /\ ~down[b] /\ ~sticky[b]
        /\ get_pressed_buttons = {}

C6_Witness ==
    /\ lastOp.op = "set_sticky_mode" /\ ~lastOp.val
    /\ \A b \in GameButton : pre.sticky[b]
    /\ pre.checked["A"] /\ pre.checked["Y"] /\ ~pre.down["A"] /\ ~pre.down["Y"]
    /\ pre.down["B"] /\ ~pre.checked["B"]
    /\ AllMomentary /\ pressed = {}

\* C7. Bad identity: set_button_checked with an id outside {0,1,2,3} raises
\* KeyError, changes no checked, down or sticky flag, leaves the aggregate
\* alone and emits nothing.
C7_BadIdentityRaises ==
    (lastOp.op = "set_button_checked" /\ lastOp.id \notin {0, 1, 2, 3}) =>
        /\ raised = "KeyError"
        /\ checked = pre.checked
        /\ down = pre.down
        /\ sticky = pre.sticky
        /\ pressed = pre.pressed
        /\ emitted = <<>>

C7_Witness ==
    /\ lastOp = Op("set_button_checked", 99, TRUE)
    /\ raised = "KeyError"
    /\ pressed = {"B"}
    /\ down["X"]

\* C8 as stated. Momentary invariant over all operations: whenever the group
\* is momentary, each button is checked iff it is down.
C8_MomentaryCheckedIffDown ==
    AllMomentary => \A b \in GameButton : checked[b] = down[b]

\* C8 as amended. In momentary mode a press leaves its button checked and
\* down, and the release of a held button leaves it unchecked and not down,
\* whatever operations came before.
C8_RawEventsRestoreMirror ==
    AllMomentary =>
        \A b \in GameButton :
            /\ lastOp = PressOf(b) => checked[b] /\ down[b]
            /\ (lastOp = ReleaseOf(b) /\ pre.down[b]) => ~checked[b] /\ ~down[b]

C8_Witness ==
    /\ AllMomentary /\ ~rawOnly
    /\ lastOp = PressOf("X")
    /\ ~pre.checked["X"] /\ checked["X"] /\ down["X"]
    /\ checked["A"] /\ ~down["A"]

\* C9. No partial update at notification time: when button_state_changed(id, v)
\* is emitted, button id's checked flag is v and the aggregate is exactly the
\* set of checked buttons, also inside the loops of reset_all() and
\* set_sticky_mode(false).
C9_NotificationSeesConsistentState ==
    \A i \in 1..Len(emitted) :
        LET e == emitted[i] IN
        /\ e.pressedAt = e.checkedAt
        /\ \A b \in GameButton :
              IntOf[b] = e.id => ((b \in e.checkedAt) <=> e.checked)
        /\ \A b \in GameButton :
              IntOf[b] = e.id => ((b \in e.pressedAt) <=> e.checked)

C9_Witness ==
    /\ lastOp.op = "reset_all"
    /\ Len(emitted) = 3
    /\ Cardinality(emitted[1].pressedAt) = 2
    /\ Cardinality(emitted[2].pressedAt) = 1
    /\ emitted[3].pressedAt = {}

\* C10. Enabling sticky mode does not reset: set_sticky_mode(true) makes all
\* four buttons sticky and leaves every checked and down flag and the
\* aggregate unchanged, emitting nothing.
C10_EnablingStickyKeepsState ==
    (lastOp.op = "set_sticky_mode" /\ lastOp.val) =>
        /\ AllSticky
        /\ checked = pre.checked
        /\ down = pre.down
        /\ pressed = pre.pressed
        /\ emitted = <<>>

C10_Witness ==
    /\ lastOp.op = "set_sticky_mode" /\ lastOp.val
    /\ \A b \in GameButton : ~pre.sticky[b]
    /\ pre.checked["A"] /\ pre.down["A"]
    /\ checked["A"] /\ down["A"] /\ AllSticky

====
